---------------------------- MODULE Spec2Model ----------------------------
(***************************************************************************)
(* The sync notifier of syncapi/sync/notifier.go as a state machine.       *)
(*                                                                         *)
(* Every public method of Notifier except Load takes streamLock on entry   *)
(* and releases it on return, so each of them is one atomic action.  The   *)
(* long-poll requests are the listeners: a request obtains a listener with *)
(* GetListener and later returns from wait(), either because the stream    *)
(* was broadcast to or because its context was cancelled.                  *)
(*                                                                         *)
(* types.StreamingToken and UserDeviceStream are used by notifier.go but   *)
(* defined elsewhere; they are modelled from their specified contract.     *)
(*                                                                         *)
(* Representation.                                                         *)
(*  - The code only ever compares time.Now() with lastCleanUpTime + 1      *)
(*    minute and with a stream's TimeOfLastNonEmpty() + 5 minutes, so a    *)
(*    timestamp is kept as the minutes elapsed since it, saturating one    *)
(*    past the threshold it is compared with.                              *)
(*  - A stream's generation is only ever compared with the generation a    *)
(*    listener captured, so it is kept per listener as the flag behind:    *)
(*    the stream's generation has moved past the captured one.  Listeners  *)
(*    of one stream that agree on that flag behave alike and are kept once.*)
(*  - A UserDeviceStream object is reachable from the registry or, once    *)
(*    the registry dropped or replaced it, only from the listeners bound   *)
(*    to it: such a listener records whether its stream was evicted or     *)
(*    replaced, and carries the object's token.                            *)
(***************************************************************************)
EXTENDS Integers, Sequences, FiniteSets, TLC

\* ------------------------------------------------------------------ bounds
\* the largest position of any stream
MaxPos == 2
\* the largest position the room-event stream reports
MaxPdu == 1
\* how many streams the registry holds at once
MaxStreams == 2
\* how many listeners wait at once
MaxListeners == 2
\* the clock is read every TickMinutes minutes
TickMinutes == 5

\* ------------------------------------------------------- program constants
\* removeEmptyUserStreams: n.lastCleanUpTime.Add(time.Minute)
CleanUpMinutes == 1
\* removeEmptyUserStreams: now.Add(-5 * time.Minute)
EvictMinutes == 5

\* ------------------------------------------------------------ value spaces
Users == {"u1", "u2"}
Devices == {"d1", "d2"}
Rooms == {"r1", "r2"}
Dims == {"pdu", "sendToDevice", "keyChange"}
Tokens == [Dims -> 0..MaxPos]
ZeroToken == [d \in Dims |-> 0]
\* posUpdate values that report a new position of the room-event stream only
PduUpdates ==
    {t \in Tokens : t["pdu"] \in 1..MaxPdu /\ t["sendToDevice"] = 0 /\ t["keyChange"] = 0}

\* posUpdate values that report a new position of one stream only
DimUpdates(dim) ==
    {t \in Tokens : t[dim] > 0 /\ \A d \in Dims \ {dim} : t[d] = 0}

\* a nil *string state key, and the error result of ev.Membership()
NoStateKey == "<nil>"
BadMembership == "<err>"
Memberships == {"invite", "join", "leave", "ban", BadMembership}

\* ev == nil
NilEvent == [roomID |-> "", type |-> "<nil>", stateKey |-> NoStateKey, membership |-> ""]
MessageEvents(rooms) ==
    {[roomID |-> r, type |-> "m.room.message", stateKey |-> NoStateKey, membership |-> ""] :
        r \in rooms}
MemberEvents(rooms) ==
    {[roomID |-> r, type |-> "m.room.member", stateKey |-> k, membership |-> m] :
        r \in rooms, k \in Users, m \in Memberships}
    \cup {[roomID |-> r, type |-> "m.room.member", stateKey |-> NoStateKey, membership |-> "join"] :
        r \in rooms}
Events(rooms) == MessageEvents(rooms) \cup MemberEvents(rooms)

UserIDLists == {<<>>, <<"u1">>, <<"u2">>, <<"u1", "u2">>}
DeviceIDLists == {<<>>, <<"d1">>, <<"d2">>, <<"d1", "d2">>}

\* the devices that send sync requests: (u2, d2) never has a stream
Requests == {<<"u1", "d1">>, <<"u1", "d2">>, <<"u2", "d1">>}

\* The results of db.AllJoinedUsersInRooms: an error, or a map from rooms to
\* users (a list in the code, of which only the members matter).
RoomToUsers == UNION {[R -> SUBSET Users] : R \in SUBSET Rooms}
LoadResults == [err : BOOLEAN, roomToUsers : RoomToUsers]

\* The (ev, roomID, userIDs) triples OnNewEvent is called with: an event of one
\* of the rooms, or one of the rooms, or a list of users (the empty list: no
\* recipient at all).
OnNewEventCalls(rooms) ==
    {[ev |-> e, roomID |-> "", userIDs |-> <<>>] : e \in Events(rooms)}
    \cup {[ev |-> NilEvent, roomID |-> r, userIDs |-> <<>>] : r \in rooms}
    \cup {[ev |-> NilEvent, roomID |-> "", userIDs |-> l] : l \in UserIDLists}

VARIABLES
    roomIDToJoinedUsers,  \* Notifier.roomIDToJoinedUsers: room -> set of users
    currPos,              \* Notifier.currPos
    userDeviceStreams,    \* Notifier.userDeviceStreams: user -> device -> stream
    sinceCleanUp,         \* minutes elapsed since Notifier.lastCleanUpTime
    listeners,            \* the listeners whose wait() has not returned
    last,                 \* history: the last operation, its arguments and its effect
    streamLock,           \* Notifier.streamLock: the call that holds it, NoHolder if free
    load,                 \* the task that runs Notifier.Load
    observed              \* history: the token each reader's last wait() returned

\* the notifier's tasks other than the one that takes the step
tasks == <<streamLock, load>>

vars == <<roomIDToJoinedUsers, currPos, userDeviceStreams, sinceCleanUp, listeners, last,
          streamLock, load, observed>>

\* ---------------------------------------------------------------- helpers
Max(a, b) == IF a >= b THEN a ELSE b
Min(a, b) == IF a <= b THEN a ELSE b

\* t1 <= t2 on every dimension
TokenLeq(t1, t2) == \A d \in Dims : t1[d] <= t2[d]

RECURSIVE SetToSeq(_)
SetToSeq(S) ==
    IF S = {} THEN <<>>
    ELSE LET x == CHOOSE y \in S : TRUE IN <<x>> \o SetToSeq(S \ {x})

Range(f) == {f[x] : x \in DOMAIN f}

\* ------------------------------------------------------ types.StreamingToken
\* WithUpdates: per-dimension maximum, a zero in `other` meaning no update.
WithUpdates(t, other) ==
    [d \in Dims |-> IF other[d] = 0 THEN t[d] ELSE Max(t[d], other[d])]

\* ---------------------------------------------------------- UserDeviceStream
\* NewUserDeviceStream(userID, deviceID, currPos).  The field due is history:
\* the token of the latest ingress call addressed to the stream's device since
\* the stream was made (the token it was made with, before any).
NewUserDeviceStream(userID, deviceID, pos) ==
    [userID |-> userID, deviceID |-> deviceID, pos |-> pos, idle |-> 0, due |-> pos]

\* Broadcast, on the stream: the token is stored when it is newer on some
\* dimension, and the idle timestamp is refreshed with it.
Broadcast(s, pos) ==
    IF \E d \in Dims : pos[d] > s.pos[d]
    THEN [s EXCEPT !.pos = pos, !.idle = 0]
    ELSE s

\* variant of BroadcastWakes: only a token that is newer bumps the generation
BroadcastWakesIfNewer(s, pos) == \E d \in Dims : pos[d] > s.pos[d]

\* Broadcast, on the waiters: the generation is bumped whatever the token, so
\* every listener of the stream is behind it afterwards.
BroadcastWakes(s, pos) == TRUE

\* the listeners bound to the registered stream of (userID, deviceID)
Waiters(ls, userID, deviceID) ==
    {l \in ls : l.userID = userID /\ l.deviceID = deviceID /\ l.stream = "registered"}

\* variant of SinceLastNonEmpty: the timestamp alone, waiters or not
SinceLastNonEmptyStamp(s, waiters) == s.idle

\* TimeOfLastNonEmpty, as minutes elapsed since it: a stream with an active
\* waiter reports the present moment.
SinceLastNonEmpty(s, waiters) ==
    IF waiters # {} THEN 0 ELSE s.idle

\* GetListener on a stream: handing the stream out refreshes its idle
\* timestamp, and the handle captures the stream's current generation.
\* bcast and owed are history: a Broadcast reached the listener's stream
\* while it waited, and the token of the last one.
StreamGetListener(s) == [s EXCEPT !.idle = 0]
NewListener(s) ==
    [userID |-> s.userID, deviceID |-> s.deviceID, behind |-> FALSE, stream |-> "registered",
     pos |-> ZeroToken, bcast |-> FALSE, owed |-> ZeroToken]

\* ------------------------------------------------------------------ Notifier
\* the history record of an operation, before its fields are filled in
NoOp ==
    [op |-> "", ev |-> NilEvent, roomID |-> "", userIDs |-> <<>>, userID |-> "",
     deviceIDs |-> <<>>, posUpdate |-> ZeroToken, woken |-> <<>>, made |-> FALSE,
     tok |-> ZeroToken, owed |-> ZeroToken, cancelled |-> FALSE, swept |-> {}]

\* streamLock when no call holds it
NoHolder ==
    [op |-> "", call |-> [ev |-> NilEvent, roomID |-> "", userIDs |-> <<>>],
     posUpdate |-> ZeroToken]

\* streamLock.Lock() returns at once
Unlocked == streamLock.op = ""

\* Load has not been called. pc is the position of the task in Load, result
\* the map storage returned, pending the part of it setUsersJoinedToRooms has
\* still to range over, before the index when Load was called, ret the value
\* the last call returned.
NoLoad ==
    [pc |-> "idle", result |-> <<>>, pending |-> <<>>, before |-> <<>>, ret |-> ""]

\* NewNotifier(pos), for a database whose position is zero on start-up
Init ==
    /\ streamLock = NoHolder
    /\ load = NoLoad
    /\ observed = [k \in Users \X Devices |-> ZeroToken]
    /\ roomIDToJoinedUsers = <<>>
    /\ currPos = ZeroToken
    /\ userDeviceStreams = <<>>
    /\ sinceCleanUp = 0
    /\ listeners = {}
    /\ last = [NoOp EXCEPT !.op = "NewNotifier"]

\* variant of LatestPos: the update replaces the current token
LatestPosOverwrite(posUpdate) == posUpdate

\* variant of LatestPos: the update is dropped
LatestPosKept(posUpdate) == currPos

\* latestPos := n.currPos.WithUpdates(posUpdate)
LatestPos(posUpdate) == WithUpdates(currPos, posUpdate)

joinedUsers(index, roomID) ==
    IF roomID \in DOMAIN index THEN index[roomID] ELSE {}

addJoinedUser(index, roomID, userID) ==
    [r \in DOMAIN index \cup {roomID} |-> joinedUsers(index, r) \cup
        (IF r = roomID THEN {userID} ELSE {})]

\* variant of removeJoinedUser: the room is entered in the index, the user stays
removeJoinedUserKeeps(index, roomID, userID) ==
    [r \in DOMAIN index \cup {roomID} |-> joinedUsers(index, r)]

removeJoinedUser(index, roomID, userID) ==
    [r \in DOMAIN index \cup {roomID} |-> joinedUsers(index, r) \
        (IF r = roomID THEN {userID} ELSE {})]

\* ev.Type() == "m.room.member" && ev.StateKey() != nil, and Membership() succeeded
IsMembership(ev) ==
    /\ ev.type = "m.room.member"
    /\ ev.stateKey # NoStateKey
    /\ ev.membership # BadMembership

\* variant of UsersToNotify: the target of any member event is appended
UsersToNotifyTarget(index, ev, roomID, userIDs) ==
    IF ev # NilEvent
    THEN SetToSeq(joinedUsers(index, ev.roomID)) \o
         (IF ev.type = "m.room.member" /\ ev.stateKey # NoStateKey
             /\ ev.membership \in {"invite", "join", BadMembership}
          THEN <<ev.stateKey>> ELSE <<>>)
    ELSE IF roomID # "" THEN SetToSeq(joinedUsers(index, roomID))
    ELSE userIDs

\* variant of UsersToNotify: every parameter that is given adds its users
UsersToNotifyAllGiven(index, ev, roomID, userIDs) ==
    (IF ev # NilEvent
     THEN SetToSeq(joinedUsers(index, ev.roomID)) \o
          (IF IsMembership(ev) /\ ev.membership \in {"invite", "join"}
           THEN <<ev.stateKey>> ELSE <<>>)
     ELSE <<>>)
    \o (IF roomID # "" THEN SetToSeq(joinedUsers(index, roomID)) ELSE <<>>)
    \o userIDs

\* variant of UsersToNotify: an event is announced to every user
UsersToNotifyEveryone(index, ev, roomID, userIDs) ==
    IF ev # NilEvent THEN SetToSeq(Users)
    ELSE IF roomID # "" THEN SetToSeq(joinedUsers(index, roomID))
    ELSE userIDs

\* variant of UsersToNotify: only a join appends its target, an invite does not
UsersToNotifyJoinOnly(index, ev, roomID, userIDs) ==
    IF ev # NilEvent
    THEN SetToSeq(joinedUsers(index, ev.roomID)) \o
         (IF IsMembership(ev) /\ ev.membership = "join" THEN <<ev.stateKey>> ELSE <<>>)
    ELSE IF roomID # "" THEN SetToSeq(joinedUsers(index, roomID))
    ELSE userIDs

\* variant of UsersToNotify: a call that names nobody is announced to every user
UsersToNotifyAllIfNone(index, ev, roomID, userIDs) ==
    IF ev # NilEvent
    THEN SetToSeq(joinedUsers(index, ev.roomID)) \o
         (IF IsMembership(ev) /\ ev.membership \in {"invite", "join"}
          THEN <<ev.stateKey>> ELSE <<>>)
    ELSE IF roomID # "" THEN SetToSeq(joinedUsers(index, roomID))
    ELSE IF userIDs # <<>> THEN userIDs
    ELSE SetToSeq(Users)

\* OnNewEvent: the users handed to wakeupUsers, in order.  The joined users
\* are read before the membership switch changes the index.
UsersToNotify(index, ev, roomID, userIDs) ==
    IF ev # NilEvent
    THEN SetToSeq(joinedUsers(index, ev.roomID)) \o
         (IF IsMembership(ev) /\ ev.membership \in {"invite", "join"}
          THEN <<ev.stateKey>> ELSE <<>>)
    ELSE IF roomID # "" THEN SetToSeq(joinedUsers(index, roomID))
    ELSE userIDs

\* variant of JoinedAfter: an invite joins its target
JoinedAfterInviteJoins(index, ev) ==
    IF ev # NilEvent /\ IsMembership(ev)
    THEN CASE ev.membership \in {"join", "invite"} -> addJoinedUser(index, ev.roomID, ev.stateKey)
           [] ev.membership \in {"leave", "ban"} -> removeJoinedUser(index, ev.roomID, ev.stateKey)
           [] OTHER -> index
    ELSE index

\* OnNewEvent: the index after the membership switch
JoinedAfter(index, ev) ==
    IF ev # NilEvent /\ IsMembership(ev)
    THEN CASE ev.membership = "join" -> addJoinedUser(index, ev.roomID, ev.stateKey)
           [] ev.membership \in {"leave", "ban"} -> removeJoinedUser(index, ev.roomID, ev.stateKey)
           [] OTHER -> index
    ELSE index

HasStream(uds, userID, deviceID) ==
    userID \in DOMAIN uds /\ deviceID \in DOMAIN uds[userID]

\* the (user, device) pairs that have a stream in the registry
Registered(uds) ==
    {k \in Users \X Devices : HasStream(uds, k[1], k[2])}

\* variant of removeEmptyUserStreams: a user whose table empties stays
removeEmptyUserStreamsKeepsUser(uds, ls, since) ==
    IF since < CleanUpMinutes THEN uds
    ELSE LET kept(u) == {d \in DOMAIN uds[u] :
                 ~(SinceLastNonEmpty(uds[u][d], Waiters(ls, u, d)) > EvictMinutes)}
         IN [u \in DOMAIN uds |-> [d \in kept(u) |-> uds[u][d]]]

\* variant of removeEmptyUserStreams: the sweep removes nothing
removeEmptyUserStreamsNone(uds, ls, since) == uds

\* variant of removeEmptyUserStreams: the sweep runs on every call
removeEmptyUserStreamsAlways(uds, ls, since) ==
    LET kept(u) == {d \in DOMAIN uds[u] :
            ~(SinceLastNonEmpty(uds[u][d], Waiters(ls, u, d)) > EvictMinutes)}
        users == {u \in DOMAIN uds : kept(u) # {}}
    IN [u \in users |-> [d \in kept(u) |-> uds[u][d]]]

\* removeEmptyUserStreams: the registry after the sweep
removeEmptyUserStreams(uds, ls, since) ==
    IF since < CleanUpMinutes THEN uds
    ELSE LET kept(u) == {d \in DOMAIN uds[u] :
                 ~(SinceLastNonEmpty(uds[u][d], Waiters(ls, u, d)) > EvictMinutes)}
             users == {u \in DOMAIN uds : kept(u) # {}}
         IN [u \in users |-> [d \in kept(u) |-> uds[u][d]]]

\* removeEmptyUserStreams: n.lastCleanUpTime = now, when the sweep runs
SinceCleanUpAfterSweep(since) ==
    IF since < CleanUpMinutes THEN since ELSE 0

\* fetchUserStreams: the streams of a user, as registry keys
fetchUserStreams(uds, userID) ==
    IF userID \notin DOMAIN uds THEN <<>>
    ELSE SetToSeq({<<userID, d>> : d \in DOMAIN uds[userID]})

\* variant of fetchUserDeviceStream: a stream is made with the zero token
fetchUserDeviceStreamStale(uds, userID, deviceID, makeIfNotExists) ==
    IF HasStream(uds, userID, deviceID)
    THEN [found |-> TRUE, made |-> FALSE, uds |-> uds]
    ELSE IF ~makeIfNotExists
    THEN [found |-> FALSE, made |-> FALSE, uds |-> uds]
    ELSE [found |-> TRUE, made |-> TRUE,
          uds |-> [u \in DOMAIN uds \cup {userID} |->
                     IF u = userID
                     THEN [d \in (IF u \in DOMAIN uds THEN DOMAIN uds[u] ELSE {}) \cup {deviceID} |->
                             IF d = deviceID
                             THEN NewUserDeviceStream(userID, deviceID, ZeroToken)
                             ELSE uds[u][d]]
                     ELSE uds[u]]]

\* variant of fetchUserDeviceStream: a stream is made whether one exists or not
fetchUserDeviceStreamAlways(uds, userID, deviceID, makeIfNotExists) ==
    IF ~makeIfNotExists
    THEN [found |-> HasStream(uds, userID, deviceID), made |-> FALSE, uds |-> uds]
    ELSE [found |-> TRUE, made |-> TRUE,
          uds |-> [u \in DOMAIN uds \cup {userID} |->
                     IF u = userID
                     THEN [d \in (IF u \in DOMAIN uds THEN DOMAIN uds[u] ELSE {}) \cup {deviceID} |->
                             IF d = deviceID
                             THEN NewUserDeviceStream(userID, deviceID, currPos)
                             ELSE uds[u][d]]
                     ELSE uds[u]]]

\* fetchUserDeviceStream: found says the result is not nil, made that the
\* stream was made by this call, uds is the registry afterwards.
fetchUserDeviceStream(uds, userID, deviceID, makeIfNotExists) ==
    IF HasStream(uds, userID, deviceID)
    THEN [found |-> TRUE, made |-> FALSE, uds |-> uds]
    ELSE IF ~makeIfNotExists
    THEN [found |-> FALSE, made |-> FALSE, uds |-> uds]
    ELSE [found |-> TRUE, made |-> TRUE,
          uds |-> [u \in DOMAIN uds \cup {userID} |->
                     IF u = userID
                     THEN [d \in (IF u \in DOMAIN uds THEN DOMAIN uds[u] ELSE {}) \cup {deviceID} |->
                             IF d = deviceID
                             THEN NewUserDeviceStream(userID, deviceID, currPos)
                             ELSE uds[u][d]]
                     ELSE uds[u]]]

\* wakeupUsers: the streams Broadcast is called on, in order
RECURSIVE wakeupUsers(_, _)
wakeupUsers(uds, userIDs) ==
    IF userIDs = <<>> THEN <<>>
    ELSE fetchUserStreams(uds, Head(userIDs)) \o wakeupUsers(uds, Tail(userIDs))

\* variant of wakeupUserDevice: every stream of the user is woken
wakeupUserDeviceAll(uds, userID, deviceIDs) == fetchUserStreams(uds, userID)

\* wakeupUserDevice: the streams Broadcast is called on, in order
RECURSIVE wakeupUserDevice(_, _, _)
wakeupUserDevice(uds, userID, deviceIDs) ==
    IF deviceIDs = <<>> THEN <<>>
    ELSE (IF fetchUserDeviceStream(uds, userID, Head(deviceIDs), FALSE).found
          THEN <<<<userID, Head(deviceIDs)>>>> ELSE <<>>)
         \o wakeupUserDevice(uds, userID, Tail(deviceIDs))

\* variant of StreamsAfterBroadcast: the streams are handed the token the
\* notifier held before the call updated it
StreamsAfterBroadcastStale(uds, woken, newPos) ==
    [u \in DOMAIN uds |-> [d \in DOMAIN uds[u] |->
        IF <<u, d>> \in Range(woken) THEN Broadcast(uds[u][d], currPos) ELSE uds[u][d]]]

\* the registry after stream.Broadcast(newPos) on every stream of `woken`
StreamsAfterBroadcast(uds, woken, newPos) ==
    [u \in DOMAIN uds |-> [d \in DOMAIN uds[u] |->
        IF <<u, d>> \in Range(woken) THEN Broadcast(uds[u][d], newPos) ELSE uds[u][d]]]

\* variant of ListenersAfterBroadcast: the waiters are not signalled
ListenersAfterBroadcastLost(uds, ls, woken, newPos) ==
    {IF l.stream = "registered" /\ <<l.userID, l.deviceID>> \in Range(woken)
     THEN [l EXCEPT !.bcast = TRUE, !.owed = newPos]
     ELSE l : l \in ls}

\* the listeners after stream.Broadcast(newPos) on every stream of `woken`
ListenersAfterBroadcast(uds, ls, woken, newPos) ==
    {IF l.stream = "registered" /\ <<l.userID, l.deviceID>> \in Range(woken)
     THEN [l EXCEPT !.behind = @ \/ BroadcastWakes(uds[l.userID][l.deviceID], newPos),
                    !.bcast = TRUE, !.owed = newPos]
     ELSE l : l \in ls}

\* history: the registered streams of the addressed devices are due newPos
DueAfter(uds, addressed, newPos) ==
    [u \in DOMAIN uds |-> [d \in DOMAIN uds[u] |->
        IF <<u, d>> \in addressed THEN [uds[u][d] EXCEPT !.due = newPos] ELSE uds[u][d]]]

\* the listeners whose stream the registry no longer holds hold the only
\* reference to it
Orphaned(before, after, ls, replaced) ==
    {IF l.stream = "registered" /\ (~HasStream(after, l.userID, l.deviceID)
                       \/ <<l.userID, l.deviceID>> \in replaced)
     THEN [l EXCEPT !.stream = IF <<l.userID, l.deviceID>> \in replaced
                               THEN "replaced" ELSE "evicted",
                    !.pos = before[l.userID][l.deviceID].pos]
     ELSE l : l \in ls}

\* the devices of a list of users
DevicesOf(userIDs) == {k \in Users \X Devices : k[1] \in Range(userIDs)}

\* ------------------------------------------------------------------- actions
\* variant of OnNewEventLocked: the streams to wake are looked up before the
\* sweep
OnNewEventLockedWakeFirst(call, posUpdate) ==
    LET latestPos == LatestPos(posUpdate)
        swept == removeEmptyUserStreams(userDeviceStreams, listeners, sinceCleanUp)
        users == UsersToNotify(roomIDToJoinedUsers, call.ev, call.roomID, call.userIDs)
        woken == wakeupUsers(userDeviceStreams, users)
    IN /\ currPos' = latestPos
       /\ sinceCleanUp' = SinceCleanUpAfterSweep(sinceCleanUp)
       /\ roomIDToJoinedUsers' = JoinedAfter(roomIDToJoinedUsers, call.ev)
       /\ userDeviceStreams' =
              DueAfter(StreamsAfterBroadcast(swept, woken, latestPos), DevicesOf(users), latestPos)
       /\ listeners' =
              ListenersAfterBroadcast(swept,
                  Orphaned(userDeviceStreams, swept, listeners, {}), woken, latestPos)
       /\ last' = [NoOp EXCEPT !.op = "OnNewEvent", !.ev = call.ev, !.roomID = call.roomID,
                               !.userIDs = call.userIDs, !.posUpdate = posUpdate,
                               !.woken = woken,
                               !.swept = Registered(userDeviceStreams) \ Registered(swept)]

\* OnNewEvent(ev, roomID, userIDs, posUpdate), under streamLock
OnNewEventLocked(call, posUpdate) ==
    LET latestPos == LatestPos(posUpdate)
        swept == removeEmptyUserStreams(userDeviceStreams, listeners, sinceCleanUp)
        users == UsersToNotify(roomIDToJoinedUsers, call.ev, call.roomID, call.userIDs)
        woken == wakeupUsers(swept, users)
    IN /\ currPos' = latestPos
       /\ sinceCleanUp' = SinceCleanUpAfterSweep(sinceCleanUp)
       /\ roomIDToJoinedUsers' = JoinedAfter(roomIDToJoinedUsers, call.ev)
       /\ userDeviceStreams' =
              DueAfter(StreamsAfterBroadcast(swept, woken, latestPos), DevicesOf(users), latestPos)
       /\ listeners' =
              ListenersAfterBroadcast(swept,
                  Orphaned(userDeviceStreams, swept, listeners, {}), woken, latestPos)
       /\ last' = [NoOp EXCEPT !.op = "OnNewEvent", !.ev = call.ev, !.roomID = call.roomID,
                               !.userIDs = call.userIDs, !.posUpdate = posUpdate,
                               !.woken = woken,
                               !.swept = Registered(userDeviceStreams) \ Registered(swept)]

\* OnNewEvent(ev, roomID, userIDs, posUpdate): Lock, the body, Unlock
OnNewEvent(call, posUpdate) ==
    /\ Unlocked
    /\ OnNewEventLocked(call, posUpdate)
    /\ UNCHANGED <<tasks, observed>>

\* OnNewEvent has taken streamLock and is about to run its body
OnNewEventLock(call, posUpdate) ==
    /\ Unlocked
    /\ streamLock' = [op |-> "OnNewEvent", call |-> call, posUpdate |-> posUpdate]
    /\ UNCHANGED <<roomIDToJoinedUsers, currPos, userDeviceStreams, sinceCleanUp, listeners,
                   last, load, observed>>

\* OnNewEvent has run its body and releases streamLock
OnNewEventUnlock ==
    /\ streamLock.op = "OnNewEvent"
    /\ OnNewEventLocked(streamLock.call, streamLock.posUpdate)
    /\ streamLock' = NoHolder
    /\ UNCHANGED <<load, observed>>

\* variant of OnNewEventEdit: the membership switch is not run before the wake
OnNewEventEditLate ==
    LET call == streamLock.call
        swept == removeEmptyUserStreams(userDeviceStreams, listeners, sinceCleanUp)
        users == UsersToNotify(roomIDToJoinedUsers, call.ev, call.roomID, call.userIDs)
    IN /\ streamLock.op = "OnNewEvent"
       /\ currPos' = LatestPos(streamLock.posUpdate)
       /\ sinceCleanUp' = SinceCleanUpAfterSweep(sinceCleanUp)
       /\ userDeviceStreams' = swept
       /\ listeners' = Orphaned(userDeviceStreams, swept, listeners, {})
       /\ streamLock' = [streamLock EXCEPT !.op = "wakeupUsers", !.call.userIDs = users]
       /\ UNCHANGED <<roomIDToJoinedUsers, last, load, observed>>

\* OnNewEvent, holding streamLock, up to its call of wakeupUsers: the token,
\* the sweep, the recipients and the membership switch. The call's
\* usersToNotify is kept with the lock.
OnNewEventEdit ==
    LET call == streamLock.call
        swept == removeEmptyUserStreams(userDeviceStreams, listeners, sinceCleanUp)
        users == UsersToNotify(roomIDToJoinedUsers, call.ev, call.roomID, call.userIDs)
    IN /\ streamLock.op = "OnNewEvent"
       /\ currPos' = LatestPos(streamLock.posUpdate)
       /\ sinceCleanUp' = SinceCleanUpAfterSweep(sinceCleanUp)
       /\ roomIDToJoinedUsers' = JoinedAfter(roomIDToJoinedUsers, call.ev)
       /\ userDeviceStreams' = swept
       /\ listeners' = Orphaned(userDeviceStreams, swept, listeners, {})
       /\ streamLock' = [streamLock EXCEPT !.op = "wakeupUsers", !.call.userIDs = users]
       /\ UNCHANGED <<last, load, observed>>

\* OnNewEvent calls wakeupUsers(usersToNotify, latestPos) and returns,
\* releasing streamLock
OnNewEventWake ==
    LET users == streamLock.call.userIDs
        woken == wakeupUsers(userDeviceStreams, users)
    IN /\ streamLock.op = "wakeupUsers"
       /\ userDeviceStreams' =
              DueAfter(StreamsAfterBroadcast(userDeviceStreams, woken, currPos),
                       DevicesOf(users), currPos)
       /\ listeners' = ListenersAfterBroadcast(userDeviceStreams, listeners, woken, currPos)
       /\ last' = [NoOp EXCEPT !.op = "OnNewEvent", !.ev = streamLock.call.ev,
                               !.roomID = streamLock.call.roomID,
                               !.posUpdate = streamLock.posUpdate, !.woken = woken]
       /\ streamLock' = NoHolder
       /\ UNCHANGED <<roomIDToJoinedUsers, currPos, sinceCleanUp, load, observed>>

\* the registry after fetchUserDeviceStream(userID, deviceID, true) for each
\* device of the list
RECURSIVE MadeFor(_, _, _)
MadeFor(uds, userID, deviceIDs) ==
    IF deviceIDs = <<>> THEN uds
    ELSE MadeFor(fetchUserDeviceStream(uds, userID, Head(deviceIDs), TRUE).uds,
                 userID, Tail(deviceIDs))

\* variant of OnNewSendToDevice: a device that has no stream is given one
OnNewSendToDeviceMakes(userID, deviceIDs, posUpdate) ==
    LET latestPos == LatestPos(posUpdate)
        made == MadeFor(userDeviceStreams, userID, deviceIDs)
        woken == wakeupUserDevice(made, userID, deviceIDs)
    IN /\ Unlocked
       /\ UNCHANGED <<tasks, observed>>
       /\ currPos' = latestPos
       /\ userDeviceStreams' =
              DueAfter(StreamsAfterBroadcast(made, woken, latestPos),
                       {userID} \X Range(deviceIDs), latestPos)
       /\ listeners' = ListenersAfterBroadcast(made, listeners, woken, latestPos)
       /\ last' = [NoOp EXCEPT !.op = "OnNewSendToDevice", !.userID = userID,
                               !.deviceIDs = deviceIDs, !.posUpdate = posUpdate,
                               !.woken = woken]
       /\ UNCHANGED <<roomIDToJoinedUsers, sinceCleanUp>>

\* variant of OnNewSendToDevice: the streams are handed posUpdate itself
OnNewSendToDeviceRaw(userID, deviceIDs, posUpdate) ==
    LET latestPos == LatestPos(posUpdate)
        woken == wakeupUserDevice(userDeviceStreams, userID, deviceIDs)
    IN /\ Unlocked
       /\ UNCHANGED <<tasks, observed>>
       /\ currPos' = latestPos
       /\ userDeviceStreams' =
              DueAfter(StreamsAfterBroadcast(userDeviceStreams, woken, posUpdate),
                       {userID} \X Range(deviceIDs), latestPos)
       /\ listeners' = ListenersAfterBroadcast(userDeviceStreams, listeners, woken, latestPos)
       /\ last' = [NoOp EXCEPT !.op = "OnNewSendToDevice", !.userID = userID,
                               !.deviceIDs = deviceIDs, !.posUpdate = posUpdate,
                               !.woken = woken]
       /\ UNCHANGED <<roomIDToJoinedUsers, sinceCleanUp>>

\* OnNewSendToDevice(userID, deviceIDs, posUpdate), under streamLock
OnNewSendToDevice(userID, deviceIDs, posUpdate) ==
    LET latestPos == LatestPos(posUpdate)
        woken == wakeupUserDevice(userDeviceStreams, userID, deviceIDs)
    IN /\ Unlocked
       /\ UNCHANGED <<tasks, observed>>
       /\ currPos' = latestPos
       /\ userDeviceStreams' =
              DueAfter(StreamsAfterBroadcast(userDeviceStreams, woken, latestPos),
                       {userID} \X Range(deviceIDs), latestPos)
       /\ listeners' = ListenersAfterBroadcast(userDeviceStreams, listeners, woken, latestPos)
       /\ last' = [NoOp EXCEPT !.op = "OnNewSendToDevice", !.userID = userID,
                               !.deviceIDs = deviceIDs, !.posUpdate = posUpdate,
                               !.woken = woken]
       /\ UNCHANGED <<roomIDToJoinedUsers, sinceCleanUp>>

\* variant of OnNewKeyChange: the woken user is entered in every room of the
\* index
OnNewKeyChangeJoins(posUpdate, wakeUserID, keyChangeUserID) ==
    LET latestPos == LatestPos(posUpdate)
        woken == wakeupUsers(userDeviceStreams, <<wakeUserID>>)
    IN /\ Unlocked
       /\ UNCHANGED <<tasks, observed>>
       /\ currPos' = latestPos
       /\ userDeviceStreams' =
              DueAfter(StreamsAfterBroadcast(userDeviceStreams, woken, latestPos),
                       DevicesOf(<<wakeUserID>>), latestPos)
       /\ listeners' = ListenersAfterBroadcast(userDeviceStreams, listeners, woken, latestPos)
       /\ last' = [NoOp EXCEPT !.op = "OnNewKeyChange", !.userID = wakeUserID,
                               !.posUpdate = posUpdate, !.woken = woken]
       /\ roomIDToJoinedUsers' =
              [r \in DOMAIN roomIDToJoinedUsers |-> roomIDToJoinedUsers[r] \cup {wakeUserID}]
       /\ UNCHANGED sinceCleanUp

\* variant of OnNewKeyChange: the user whose keys changed is woken as well
OnNewKeyChangeBoth(posUpdate, wakeUserID, keyChangeUserID) ==
    LET latestPos == LatestPos(posUpdate)
        woken == wakeupUsers(userDeviceStreams, <<wakeUserID, keyChangeUserID>>)
    IN /\ Unlocked
       /\ UNCHANGED <<tasks, observed>>
       /\ currPos' = latestPos
       /\ userDeviceStreams' =
              DueAfter(StreamsAfterBroadcast(userDeviceStreams, woken, latestPos),
                       DevicesOf(<<wakeUserID>>), latestPos)
       /\ listeners' = ListenersAfterBroadcast(userDeviceStreams, listeners, woken, latestPos)
       /\ last' = [NoOp EXCEPT !.op = "OnNewKeyChange", !.userID = wakeUserID,
                               !.posUpdate = posUpdate, !.woken = woken]
       /\ UNCHANGED <<roomIDToJoinedUsers, sinceCleanUp>>

\* OnNewKeyChange(posUpdate, wakeUserID, keyChangeUserID), under streamLock
OnNewKeyChange(posUpdate, wakeUserID, keyChangeUserID) ==
    LET latestPos == LatestPos(posUpdate)
        woken == wakeupUsers(userDeviceStreams, <<wakeUserID>>)
    IN /\ Unlocked
       /\ UNCHANGED <<tasks, observed>>
       /\ currPos' = latestPos
       /\ userDeviceStreams' =
              DueAfter(StreamsAfterBroadcast(userDeviceStreams, woken, latestPos),
                       DevicesOf(<<wakeUserID>>), latestPos)
       /\ listeners' = ListenersAfterBroadcast(userDeviceStreams, listeners, woken, latestPos)
       /\ last' = [NoOp EXCEPT !.op = "OnNewKeyChange", !.userID = wakeUserID,
                               !.posUpdate = posUpdate, !.woken = woken]
       /\ UNCHANGED <<roomIDToJoinedUsers, sinceCleanUp>>

\* GetListener(req) for req.device = (userID, deviceID), under streamLock
GetListener(userID, deviceID) ==
    LET swept == removeEmptyUserStreams(userDeviceStreams, listeners, sinceCleanUp)
        f == fetchUserDeviceStream(swept, userID, deviceID, TRUE)
        replaced == IF f.made /\ HasStream(swept, userID, deviceID)
                    THEN {<<userID, deviceID>>} ELSE {}
        ls == Orphaned(swept, f.uds,
                       Orphaned(userDeviceStreams, swept, listeners, {}), replaced)
                 \cup {NewListener(f.uds[userID][deviceID])}
    IN /\ Unlocked
       /\ UNCHANGED <<tasks, observed>>
       /\ f.made => Cardinality(Registered(swept)) < MaxStreams
       /\ Cardinality(ls) <= MaxListeners
       /\ sinceCleanUp' = SinceCleanUpAfterSweep(sinceCleanUp)
       /\ userDeviceStreams' = [f.uds EXCEPT ![userID][deviceID] = StreamGetListener(@)]
       /\ listeners' = ls
       /\ last' = [NoOp EXCEPT !.op = "GetListener", !.userID = userID,
                               !.deviceIDs = <<deviceID>>, !.made = f.made,
                               !.tok = f.uds[userID][deviceID].pos,
                               !.swept = Registered(userDeviceStreams) \ Registered(swept)]
       /\ UNCHANGED <<roomIDToJoinedUsers, currPos>>

\* the token a listener reads from its stream
ListenerPos(l) ==
    IF l.stream = "registered"
    THEN userDeviceStreams[l.userID][l.deviceID].pos ELSE l.pos

\* wait() returns because the stream's generation passed the captured one
WaitReturns(l) ==
    /\ l \in listeners
    /\ l.behind
    /\ listeners' = listeners \ {l}
    /\ last' = [NoOp EXCEPT !.op = "Wait", !.userID = l.userID, !.deviceIDs = <<l.deviceID>>,
                            !.tok = ListenerPos(l), !.owed = l.owed]
    /\ UNCHANGED <<roomIDToJoinedUsers, currPos, userDeviceStreams, sinceCleanUp>>
    /\ UNCHANGED tasks

\* wait() returns because the request's context was cancelled
CancelReturns(l) ==
    /\ l \in listeners
    /\ listeners' = listeners \ {l}
    /\ last' = [NoOp EXCEPT !.op = "Cancel", !.userID = l.userID, !.deviceIDs = <<l.deviceID>>,
                            !.tok = ListenerPos(l), !.owed = l.owed, !.cancelled = TRUE]
    /\ UNCHANGED <<roomIDToJoinedUsers, currPos, userDeviceStreams, sinceCleanUp>>
    /\ UNCHANGED tasks

\* the two returns of wait(), the history of the readers left aside
Wait(l) == WaitReturns(l) /\ UNCHANGED observed
Cancel(l) == CancelReturns(l) /\ UNCHANGED observed

\* the same returns, with the token the reader is handed kept as history
ReaderWait(l) ==
    /\ WaitReturns(l)
    /\ observed' = [observed EXCEPT ![<<l.userID, l.deviceID>>] = ListenerPos(l)]
ReaderCancel(l) ==
    /\ CancelReturns(l)
    /\ observed' = [observed EXCEPT ![<<l.userID, l.deviceID>>] = ListenerPos(l)]

\* CurrentPosition(), under streamLock
CurrentPosition ==
    /\ Unlocked
    /\ UNCHANGED <<tasks, observed>>
    /\ last' = [NoOp EXCEPT !.op = "CurrentPosition", !.tok = currPos]
    /\ UNCHANGED <<roomIDToJoinedUsers, currPos, userDeviceStreams, sinceCleanUp, listeners>>

\* the clock advances by TickMinutes between two operations
Tick ==
    /\ sinceCleanUp' = Min(sinceCleanUp + TickMinutes, CleanUpMinutes)
    /\ userDeviceStreams' = [u \in DOMAIN userDeviceStreams |->
           [d \in DOMAIN userDeviceStreams[u] |->
               [userDeviceStreams[u][d] EXCEPT !.idle = Min(@ + TickMinutes, EvictMinutes + 1)]]]
    /\ last' = [NoOp EXCEPT !.op = "Tick"]
    /\ UNCHANGED <<roomIDToJoinedUsers, currPos, listeners>>
    /\ UNCHANGED <<tasks, observed>>

\* variant of setUsersJoinedToRooms: the room's users are replaced
setUsersJoinedToRoomsReplace(index, roomID, userIDs) ==
    [r \in DOMAIN index \cup {roomID} |->
        IF r = roomID THEN userIDs ELSE joinedUsers(index, r)]

\* setUsersJoinedToRooms, one iteration of its loop over the rooms: the room
\* is entered in the index if it is not there, and each user is added
setUsersJoinedToRooms(index, roomID, userIDs) ==
    [r \in DOMAIN index \cup {roomID} |->
        joinedUsers(index, r) \cup (IF r = roomID THEN userIDs ELSE {})]

\* f without the key k
Without(f, k) == [x \in DOMAIN f \ {k} |-> f[x]]

\* Load(ctx, db) is called and db.AllJoinedUsersInRooms returns result: on an
\* error Load goes to its return, otherwise into setUsersJoinedToRooms. Load
\* takes no lock.
LoadCall(result) ==
    /\ load.pc = "idle"
    /\ load' = [pc |-> IF result.err THEN "failed" ELSE "writing",
                result |-> IF result.err THEN <<>> ELSE result.roomToUsers,
                pending |-> IF result.err THEN <<>> ELSE result.roomToUsers,
                before |-> roomIDToJoinedUsers, ret |-> ""]
    /\ last' = [NoOp EXCEPT !.op = "Load"]
    /\ UNCHANGED <<roomIDToJoinedUsers, currPos, userDeviceStreams, sinceCleanUp, listeners,
                   streamLock, observed>>

\* setUsersJoinedToRooms ranges over one more room (in any order: a Go map)
LoadWrite(roomID) ==
    /\ load.pc = "writing"
    /\ roomID \in DOMAIN load.pending
    /\ roomIDToJoinedUsers' =
           setUsersJoinedToRooms(roomIDToJoinedUsers, roomID, load.pending[roomID])
    /\ load' = [load EXCEPT !.pending = Without(@, roomID)]
    /\ last' = [NoOp EXCEPT !.op = "Load"]
    /\ UNCHANGED <<currPos, userDeviceStreams, sinceCleanUp, listeners, streamLock, observed>>

\* setUsersJoinedToRooms writes the map while OnNewEvent, inside streamLock,
\* reads and writes it: a data race on a Go map. Either the write lands (that
\* is LoadWrite), or it is lost, or the runtime stops the process ("fatal
\* error: concurrent map writes").
LoadWriteRaced(roomID, outcome) ==
    /\ load.pc = "writing"
    /\ roomID \in DOMAIN load.pending
    /\ streamLock.op = "OnNewEvent"
    /\ load' = IF outcome = "fatal" THEN [load EXCEPT !.pc = "fatal"]
               ELSE [load EXCEPT !.pending = Without(@, roomID)]
    /\ last' = [NoOp EXCEPT !.op = "Load"]
    /\ UNCHANGED <<roomIDToJoinedUsers, currPos, userDeviceStreams, sinceCleanUp, listeners,
                   streamLock, observed>>

\* Load returns: the error of the query, or nil after setUsersJoinedToRooms
LoadReturn ==
    /\ \/ load.pc = "failed"
       \/ load.pc = "writing" /\ DOMAIN load.pending = {}
    /\ load' = [load EXCEPT !.pc = "idle",
                            !.ret = IF load.pc = "failed" THEN "err" ELSE "nil"]
    /\ last' = [NoOp EXCEPT !.op = "Load"]
    /\ UNCHANGED <<roomIDToJoinedUsers, currPos, userDeviceStreams, sinceCleanUp, listeners,
                   streamLock, observed>>

\* ------------------------------------------------------------ specifications
\* Room events of one room, the room-event position.
Next ==
    \/ \E call \in OnNewEventCalls({"r1"}), posUpdate \in PduUpdates :
           OnNewEvent(call, posUpdate)
    \/ \E userID \in Users, deviceIDs \in DeviceIDLists, posUpdate \in PduUpdates :
           OnNewSendToDevice(userID, deviceIDs, posUpdate)
    \/ \E posUpdate \in PduUpdates, wakeUserID \in Users, keyChangeUserID \in Users :
           OnNewKeyChange(posUpdate, wakeUserID, keyChangeUserID)
    \/ \E req \in Requests : GetListener(req[1], req[2])
    \/ \E l \in listeners : Wait(l)
    \/ \E l \in listeners : Cancel(l)
    \/ CurrentPosition
    \/ Tick

Spec == Init /\ [][Next]_vars

\* wait() is a goroutine of its own: once its stream's generation has passed
\* the captured one it returns, whatever else the notifier is asked to do.
WaitKey(userID, deviceID) ==
    \E l \in listeners : l.userID = userID /\ l.deviceID = deviceID /\ Wait(l)

FairSpec == Spec /\ \A userID \in Users, deviceID \in Devices : WF_vars(WaitKey(userID, deviceID))

\* Membership events of two rooms, one device.
RoomNext ==
    \/ \E call \in OnNewEventCalls(Rooms), posUpdate \in PduUpdates :
           OnNewEvent(call, posUpdate)
    \/ GetListener("u1", "d1")
    \/ \E l \in listeners : Wait(l)
    \/ \E l \in listeners : Cancel(l)
    \/ Tick

RoomSpec == Init /\ [][RoomNext]_vars

\* Arbitrary position updates, one device.
TokenNext ==
    \/ \E userIDs \in {<<>>, <<"u1">>}, posUpdate \in Tokens :
           OnNewEvent([ev |-> NilEvent, roomID |-> "", userIDs |-> userIDs], posUpdate)
    \/ \E posUpdate \in Tokens : OnNewSendToDevice("u1", <<"d1">>, posUpdate)
    \/ \E posUpdate \in Tokens, keyChangeUserID \in Users :
           OnNewKeyChange(posUpdate, "u1", keyChangeUserID)
    \/ GetListener("u1", "d1")
    \/ \E l \in listeners : Wait(l)
    \/ CurrentPosition

TokenSpec == Init /\ [][TokenNext]_vars

\* Explicitly addressed traffic: send-to-device messages and key changes.
DeviceNext ==
    \/ \E userID \in Users, deviceIDs \in DeviceIDLists,
          posUpdate \in DimUpdates("sendToDevice") :
           OnNewSendToDevice(userID, deviceIDs, posUpdate)
    \/ \E posUpdate \in DimUpdates("keyChange"), wakeUserID \in Users,
          keyChangeUserID \in Users :
           OnNewKeyChange(posUpdate, wakeUserID, keyChangeUserID)
    \/ \E req \in Requests : GetListener(req[1], req[2])
    \/ \E l \in listeners : Wait(l)
    \/ \E l \in listeners : Cancel(l)
    \/ CurrentPosition

DeviceSpec == Init /\ [][DeviceNext]_vars

\* OnNewEvent called with the joins and leaves of the rooms
JoinLeaveCalls(rooms) ==
    {call \in OnNewEventCalls(rooms) :
        call.ev.type = "m.room.member" /\ call.ev.membership \in {"join", "leave"}
        /\ call.ev.stateKey \in Users}

\* Load called as setUsersJoinedToRooms asks ("prior to ANY calls to
\* OnNewEvent"): no OnNewEvent between a call of Load and its return.
LoadNext ==
    \/ \E result \in LoadResults : LoadCall(result)
    \/ \E roomID \in Rooms : LoadWrite(roomID)
    \/ LoadReturn
    \/ \E call \in JoinLeaveCalls(Rooms), posUpdate \in PduUpdates :
           load.pc = "idle" /\ OnNewEvent(call, posUpdate)

LoadSpec == Init /\ [][LoadNext]_vars

\* Load called while the ingest task calls OnNewEvent: nothing in the code
\* orders the two. The ingest task reports joins and leaves of one room, and
\* storage knows of one user. The process takes no step after a fatal error.
RaceResults ==
    {result \in LoadResults :
        \A r \in DOMAIN result.roomToUsers : result.roomToUsers[r] = {"u1"}}

RaceNext ==
    \/ \E result \in RaceResults : LoadCall(result)
    \/ \E roomID \in Rooms : LoadWrite(roomID)
    \/ \E roomID \in Rooms, outcome \in {"lost", "fatal"} : LoadWriteRaced(roomID, outcome)
    \/ LoadReturn
    \/ \E call \in JoinLeaveCalls({"r1"}), posUpdate \in PduUpdates :
           load.pc # "fatal" /\ OnNewEventLock(call, posUpdate)
    \/ load.pc # "fatal" /\ OnNewEventUnlock

RaceSpec == Init /\ [][RaceNext]_vars

\* OnNewEvent for the events of one room, statement by statement, while
\* readers take listeners and their waits return. No time passes.
OrderNext ==
    \/ \E call \in {c \in OnNewEventCalls({"r1"}) : c.ev # NilEvent}, posUpdate \in PduUpdates :
           OnNewEventLock(call, posUpdate)
    \/ OnNewEventEdit
    \/ OnNewEventWake
    \/ \E req \in Requests : GetListener(req[1], req[2])
    \/ \E l \in listeners : Wait(l)
    \/ \E l \in listeners : Cancel(l)

OrderSpec == Init /\ [][OrderNext]_vars

\* OnNewEvent called with any combination of an event (a message or a join, or
\* none), a room (or none) and a list of users; one device for each user. No
\* time passes.
PriorityCalls ==
    [ev : {NilEvent} \cup MessageEvents(Rooms)
              \cup {e \in MemberEvents(Rooms) : e.membership = "join" /\ e.stateKey \in Users},
     roomID : {""} \cup Rooms,
     userIDs : {<<>>, <<"u1">>, <<"u2">>}]

PriorityNext ==
    \/ \E call \in PriorityCalls, posUpdate \in PduUpdates : OnNewEvent(call, posUpdate)
    \/ \E userID \in Users : GetListener(userID, "d1")
    \/ \E l \in listeners : Wait(l)

PrioritySpec == Init /\ [][PriorityNext]_vars

\* One reader, of (u1, d1), that takes a listener and waits again and again
\* while room events and send-to-device messages addressed to it arrive with
\* new and with old positions, and while time passes and its stream is swept.
ReaderNext ==
    \/ \E userIDs \in {<<>>, <<"u1">>}, posUpdate \in DimUpdates("pdu") :
           OnNewEvent([ev |-> NilEvent, roomID |-> "", userIDs |-> userIDs], posUpdate)
    \/ \E deviceIDs \in {<<>>, <<"d1">>}, posUpdate \in DimUpdates("sendToDevice") :
           OnNewSendToDevice("u1", deviceIDs, posUpdate)
    \/ GetListener("u1", "d1")
    \/ \E l \in listeners : ReaderWait(l)
    \/ \E l \in listeners : ReaderCancel(l)
    \/ Tick

ReaderSpec == Init /\ [][ReaderNext]_vars

\* ---------------------------------------------------------------- properties
IngressOps == {"OnNewEvent", "OnNewSendToDevice", "OnNewKeyChange"}

\* the users joined to a room, an absent room having none
JoinedIn(index, roomID) == IF roomID \in DOMAIN index THEN index[roomID] ELSE {}

\* the stream registered for a (user, device) pair
StreamIn(uds, k) == uds[k[1]][k[2]]

\* the (user, device) pair of a listener
KeyOf(l) == <<l.userID, l.deviceID>>

\* an event OnNewEvent does not take for a membership event
NonMembership(ev) ==
    ev # NilEvent /\ ~(ev.type = "m.room.member" /\ ev.stateKey # NoStateKey)

\* a listener after a Broadcast of pos reached it
Woken(l, pos) == [l EXCEPT !.behind = TRUE, !.bcast = TRUE, !.owed = pos]

\* C1: over every sequence of ingress calls, GetListener and CurrentPosition,
\* with arbitrary posUpdate values, the current token never decreases on any
\* dimension, and CurrentPosition returns the current token.
C1_CurrentPositionNeverDecreases ==
    [][/\ \A d \in Dims : currPos'[d] >= currPos[d]
       /\ last'.op = "CurrentPosition" => last'.tok = currPos']_vars

\* C1 witness: an ingress call whose posUpdate was, on some dimension, a
\* position below the one the notifier holds.
C1_StaleUpdateApplied ==
    /\ last.op \in IngressOps
    /\ \E d \in Dims : last.posUpdate[d] > 0 /\ last.posUpdate[d] < currPos[d]

\* C2: an ingress call merges posUpdate into the current token first and hands
\* that token to every Broadcast: each stream it woke stores exactly the current
\* token and each of its listeners is owed it; and every registered stream's
\* token is <= the current token on every dimension.
C2_BroadcastCarriesCurrentToken ==
    /\ \A k \in Registered(userDeviceStreams) :
           TokenLeq(StreamIn(userDeviceStreams, k).pos, currPos)
    /\ last.op \in IngressOps =>
           \A k \in Range(last.woken) :
               /\ k \in Registered(userDeviceStreams)
               /\ StreamIn(userDeviceStreams, k).pos = currPos
               /\ \A l \in Waiters(listeners, k[1], k[2]) : l.bcast /\ l.owed = currPos

\* C2 witness: an ingress call woke a stream with a waiting listener, with a
\* token that is the merge of posUpdate into the earlier token, not posUpdate.
C2_MergedTokenBroadcast ==
    /\ last.op \in IngressOps
    /\ \E k \in Range(last.woken) : \E l \in Waiters(listeners, k[1], k[2]) :
           l.bcast /\ l.owed = currPos
    /\ \E d \in Dims : last.posUpdate[d] > 0 /\ currPos[d] = last.posUpdate[d]
    /\ \E d \in Dims : last.posUpdate[d] = 0 /\ currPos[d] > 0

\* C3: a listener waiting on a stream when a token T is broadcast to it
\* eventually returns from wait(), and returns a token >= T.
C3_WaiterEventuallyReturns ==
    /\ [](last.op = "Wait" => TokenLeq(last.owed, last.tok))
    /\ \A k \in Requests :
           (\E l \in listeners : KeyOf(l) = k /\ l.bcast)
               ~> (last.op \in {"Wait", "Cancel"} /\ last.userID = k[1]
                   /\ last.deviceIDs = <<k[2]>>)

\* C3 witness: wait() returned after a broadcast, with the token broadcast.
C3_WaitReturnedBroadcastToken ==
    /\ last.op = "Wait"
    /\ last.owed # ZeroToken
    /\ last.tok = last.owed

C5_SubscriberSeesCommittedToken ==
    /\ \A k \in Registered(userDeviceStreams) :
           TokenLeq(StreamIn(userDeviceStreams, k).due, StreamIn(userDeviceStreams, k).pos)
    /\ last.op = "GetListener" =>
           LET k == <<last.userID, last.deviceIDs[1]>> IN
           /\ k \in Registered(userDeviceStreams)
           /\ TokenLeq(StreamIn(userDeviceStreams, k).due, last.tok)
           /\ last.made => last.tok = currPos

\* C5 witness: GetListener made a stream after the token had advanced.
C5_StreamMadeAfterAdvance ==
    /\ last.op = "GetListener"
    /\ last.made
    /\ last.tok = currPos
    /\ currPos # ZeroToken

\* C6: the registry holds one stream per (user, device), and no GetListener
\* replaces the stream a listener is bound to: unless its stream was evicted,
\* a listener is bound to the stream registered for its device, so two
\* listeners of one device with no eviction in between are bound to the same
\* stream.
C6_OneStreamPerDevice ==
    \A l \in listeners :
        /\ l.stream # "replaced"
        /\ l.stream = "registered" => KeyOf(l) \in Registered(userDeviceStreams)

\* C6 witness: a second GetListener for a device found the stream of a
\* listener that is still waiting.
C6_SecondListenerSameStream ==
    /\ last.op = "GetListener"
    /\ ~last.made
    /\ \E l1, l2 \in listeners :
           /\ l1 # l2
           /\ KeyOf(l1) = KeyOf(l2)
           /\ KeyOf(l1) = <<last.userID, last.deviceIDs[1]>>

\* C7: OnNewEvent for a non-membership event of room r broadcasts only to
\* streams of users joined to r: a listener of another user is left as it was,
\* a listener of a joined user is woken with the new current token.
C7_MessageWakesJoinedOnly ==
    [][last'.op = "OnNewEvent" /\ NonMembership(last'.ev) =>
          LET joined == JoinedIn(roomIDToJoinedUsers, last'.ev.roomID) IN
          /\ \A k \in Range(last'.woken) : k[1] \in joined
          /\ \A l \in listeners :
                 IF l.userID \in joined
                 THEN /\ Woken(l, currPos') \in listeners'
                      /\ KeyOf(l) \in Range(last'.woken)
                      /\ StreamIn(userDeviceStreams', KeyOf(l)).pos = currPos'
                 ELSE l \in listeners']_vars

\* C7 witness: after a message event a joined user's listener is woken with
\* the current token while another user's listener still blocks.
C7_JoinedWokenOtherBlocked ==
    /\ last.op = "OnNewEvent"
    /\ NonMembership(last.ev)
    /\ \E l1, l2 \in listeners :
           /\ l1.userID \in JoinedIn(roomIDToJoinedUsers, last.ev.roomID)
           /\ l1.behind /\ l1.owed = currPos /\ currPos # ZeroToken
           /\ l2.userID \notin JoinedIn(roomIDToJoinedUsers, last.ev.roomID)
           /\ ~l2.behind

\* C8: after OnNewEvent for a membership event with target u in room r, u is
\* joined to r if it was a join, not joined if it was a leave or a ban, the
\* joined set of r is what it was if it was an invite, and the joined set of
\* every other room is what it was.
C8_MembershipTransitions ==
    [][last'.op = "OnNewEvent" /\ IsMembership(last'.ev) =>
          LET r == last'.ev.roomID
              u == last'.ev.stateKey
              m == last'.ev.membership
              before == JoinedIn(roomIDToJoinedUsers, r)
              after == JoinedIn(roomIDToJoinedUsers', r)
          IN /\ m = "join" => after = before \cup {u}
             /\ m \in {"leave", "ban"} => after = before \ {u}
             /\ m = "invite" => after = before
             /\ \A r2 \in Rooms \ {r} :
                    JoinedIn(roomIDToJoinedUsers', r2) = JoinedIn(roomIDToJoinedUsers, r2)]_vars

\* C8 witness: a ban took its target out of a room another user stays joined
\* to, while the target stays joined to the other room.
C8_BanRemovedTarget ==
    /\ last.op = "OnNewEvent"
    /\ IsMembership(last.ev)
    /\ last.ev.membership = "ban"
    /\ last.ev.stateKey \notin JoinedIn(roomIDToJoinedUsers, last.ev.roomID)
    /\ JoinedIn(roomIDToJoinedUsers, last.ev.roomID) # {}
    /\ \E r2 \in Rooms \ {last.ev.roomID} :
           last.ev.stateKey \in JoinedIn(roomIDToJoinedUsers, r2)

\* C9: OnNewEvent for an invite of u to r leaves the membership index as it
\* was and broadcasts the new current token to every device stream of u that
\* the registry holds, whether u is joined to r or not: every listener of u is
\* woken with it.
C9_InviteWakesInvitee ==
    [][last'.op = "OnNewEvent" /\ IsMembership(last'.ev) /\ last'.ev.membership = "invite" =>
          LET u == last'.ev.stateKey IN
          /\ roomIDToJoinedUsers' = roomIDToJoinedUsers
          /\ \A k \in Registered(userDeviceStreams') :
                 k[1] = u => /\ k \in Range(last'.woken)
                             /\ StreamIn(userDeviceStreams', k).pos = currPos'
          /\ \A l \in listeners : l.userID = u => Woken(l, currPos') \in listeners']_vars

\* C9 witness: an invite woke both device streams of an invitee who is not
\* joined to the room.
C9_InviteeNotJoinedWoken ==
    /\ last.op = "OnNewEvent"
    /\ IsMembership(last.ev)
    /\ last.ev.membership = "invite"
    /\ last.ev.stateKey \notin JoinedIn(roomIDToJoinedUsers, last.ev.roomID)
    /\ \A d \in Devices :
           /\ <<last.ev.stateKey, d>> \in Range(last.woken)
           /\ \E l \in Waiters(listeners, last.ev.stateKey, d) : l.behind /\ l.owed = currPos

\* C10 as stated: a leave or a ban of u takes u out of the joined set and
\* broadcasts to none of u's device streams.
C10_LeaverNotWoken ==
    last.op = "OnNewEvent" /\ IsMembership(last.ev) /\ last.ev.membership \in {"leave", "ban"} =>
        /\ last.ev.stateKey \notin JoinedIn(roomIDToJoinedUsers, last.ev.roomID)
        /\ \A k \in Range(last.woken) : k[1] # last.ev.stateKey

\* C10 amended: a leave or a ban of u takes u out of the joined set of r, and
\* that event is broadcast to u's device streams exactly when u was joined to r
\* as the call began; and an event of r is broadcast to the streams of a user
\* who is not joined to r only if it is an invite or a join of that user.
C10_LeaveRemovesAfterWake ==
    [][last'.op = "OnNewEvent" /\ last'.ev # NilEvent =>
          LET ev == last'.ev
              before == JoinedIn(roomIDToJoinedUsers, ev.roomID)
          IN /\ IsMembership(ev) /\ ev.membership \in {"leave", "ban"} =>
                    /\ ev.stateKey \notin JoinedIn(roomIDToJoinedUsers', ev.roomID)
                    /\ \A k \in Registered(userDeviceStreams') :
                           k[1] = ev.stateKey =>
                               (k \in Range(last'.woken) <=> ev.stateKey \in before)
             /\ \A k \in Range(last'.woken) :
                    k[1] \notin before =>
                        /\ IsMembership(ev)
                        /\ ev.membership \in {"invite", "join"}
                        /\ ev.stateKey = k[1]]_vars

\* C10 witness: a leave or a ban was broadcast to a stream of its target, who
\* is no longer joined.
C10_LeaverWokenByOwnLeave ==
    /\ last.op = "OnNewEvent"
    /\ IsMembership(last.ev)
    /\ last.ev.membership \in {"leave", "ban"}
    /\ last.ev.stateKey \notin JoinedIn(roomIDToJoinedUsers, last.ev.roomID)
    /\ \E k \in Range(last.woken) : k[1] = last.ev.stateKey

\* C11: OnNewSendToDevice(userID, deviceIDs, posUpdate) broadcasts to exactly
\* the registered streams (userID, d) with d in deviceIDs: their listeners are
\* woken with the new current token, every other listener is left as it was,
\* and the current token reports the update on its sendToDevice position.
C11_SendToDeviceWakesNamedDevices ==
    [][last'.op = "OnNewSendToDevice" =>
          LET addressed == {last'.userID} \X Range(last'.deviceIDs) IN
          /\ Range(last'.woken) = addressed \cap Registered(userDeviceStreams)
          /\ \A l \in listeners :
                 IF KeyOf(l) \in addressed
                 THEN Woken(l, currPos') \in listeners'
                 ELSE l \in listeners'
          /\ Cardinality(listeners') <= Cardinality(listeners)
          /\ currPos'["sendToDevice"] >= last'.posUpdate["sendToDevice"]
          /\ currPos' = WithUpdates(currPos, last'.posUpdate)]_vars

\* C11 witness: a message for (u1, d2) woke the listener of d2 with a token
\* that reports it, while the listener of d1 still blocks.
C11_OtherDeviceBlocked ==
    /\ last.op = "OnNewSendToDevice"
    /\ last.userID = "u1"
    /\ last.deviceIDs = <<"d2">>
    /\ currPos["sendToDevice"] = last.posUpdate["sendToDevice"]
    /\ currPos["sendToDevice"] > 0
    /\ \E l \in Waiters(listeners, "u1", "d2") : l.behind /\ l.owed = currPos
    /\ \E l \in Waiters(listeners, "u1", "d1") : ~l.behind

\* C12: OnNewKeyChange advances the token and broadcasts to exactly the
\* registered streams of wakeUserID, and a step it takes for one
\* keyChangeUserID is the step it takes for any other: the state it leaves and
\* the streams it wakes do not depend on keyChangeUserID.
C12_KeyChangeUserNotRouted ==
    [][last'.op = "OnNewKeyChange" =>
          LET posUpdate == last'.posUpdate
              wakeUserID == last'.userID
          IN /\ currPos' = WithUpdates(currPos, posUpdate)
             /\ Range(last'.woken) =
                    {k \in Registered(userDeviceStreams) : k[1] = wakeUserID}
             /\ \A l \in listeners :
                    IF l.userID = wakeUserID
                    THEN Woken(l, currPos') \in listeners'
                    ELSE l \in listeners'
             /\ \A keyChangeUserID \in Users :
                    OnNewKeyChange(posUpdate, wakeUserID, keyChangeUserID)]_vars

\* C12 witness: a key change woke the listener of the woken user with a token
\* that reports it, while a listener of the other user still blocks.
C12_OnlyWakeUserWoken ==
    /\ last.op = "OnNewKeyChange"
    /\ currPos["keyChange"] = last.posUpdate["keyChange"]
    /\ currPos["keyChange"] > 0
    /\ \E l1, l2 \in listeners :
           /\ l1.userID = last.userID /\ l1.behind /\ l1.owed = currPos
           /\ l2.userID # last.userID /\ ~l2.behind

\* an OnNewEvent call with a nil event, an empty roomID and no userIDs
NoRecipient(rec) ==
    rec.op = "OnNewEvent" /\ rec.ev = NilEvent /\ rec.roomID = "" /\ rec.userIDs = <<>>

\* C13: OnNewEvent with a nil event, an empty roomID and no userIDs merges
\* posUpdate into the current token and broadcasts to no stream: no listener is
\* woken and every stream keeps its token.
C13_NoRecipientStillAdvances ==
    [][NoRecipient(last') =>
          /\ currPos' = WithUpdates(currPos, last'.posUpdate)
          /\ TokenLeq(last'.posUpdate, currPos')
          /\ last'.woken = <<>>
          /\ listeners' = listeners
          /\ \A k \in Registered(userDeviceStreams') :
                 StreamIn(userDeviceStreams', k) = StreamIn(userDeviceStreams, k)]_vars

\* C13 witness: after such a call the token reports the update while a
\* listener still blocks on a stream that holds an older token.
C13_AdvancedNobodyWoken ==
    /\ NoRecipient(last)
    /\ \E d \in Dims : last.posUpdate[d] > 0 /\ currPos[d] = last.posUpdate[d]
    /\ \E l \in listeners :
           /\ ~l.behind
           /\ l.stream = "registered"
           /\ \E d \in Dims : StreamIn(userDeviceStreams, KeyOf(l)).pos[d] < currPos[d]

\* C14 as stated: OnNewEvent with a nil event, an empty roomID and no userIDs
\* changes nothing: the token, the registry, lastCleanUpTime and the index are
\* what they were.
C14_NoStateChange ==
    [][NoRecipient(last') =>
          /\ currPos' = currPos
          /\ userDeviceStreams' = userDeviceStreams
          /\ sinceCleanUp' = sinceCleanUp
          /\ roomIDToJoinedUsers' = roomIDToJoinedUsers]_vars

\* C14 amended: such a call leaves the index as it was and broadcasts to no
\* stream, but it merges posUpdate into the token and runs the sweep: when a
\* minute has passed since the last one, lastCleanUpTime becomes now and the
\* streams idle for more than five minutes without a waiter are removed; the
\* streams that stay are unchanged.
C14_NoRecipientTouchesTokenAndSweep ==
    [][NoRecipient(last') =>
          /\ roomIDToJoinedUsers' = roomIDToJoinedUsers
          /\ last'.woken = <<>>
          /\ listeners' = listeners
          /\ currPos' = WithUpdates(currPos, last'.posUpdate)
          /\ sinceCleanUp' = IF sinceCleanUp >= CleanUpMinutes THEN 0 ELSE sinceCleanUp
          /\ Registered(userDeviceStreams') \subseteq Registered(userDeviceStreams)
          /\ \A k \in Registered(userDeviceStreams) :
                 IF /\ sinceCleanUp >= CleanUpMinutes
                    /\ StreamIn(userDeviceStreams, k).idle > EvictMinutes
                    /\ Waiters(listeners, k[1], k[2]) = {}
                 THEN k \notin Registered(userDeviceStreams')
                 ELSE /\ k \in Registered(userDeviceStreams')
                      /\ StreamIn(userDeviceStreams', k) = StreamIn(userDeviceStreams, k)]_vars

\* C14 witness: such a call has advanced the token past the token of a stream
\* it left alone, and has just swept.
C14_TokenMovedBySilentCall ==
    /\ NoRecipient(last)
    /\ currPos = last.posUpdate
    /\ sinceCleanUp = 0
    /\ \E k \in Registered(userDeviceStreams) :
           /\ StreamIn(userDeviceStreams, k).pos = ZeroToken
           /\ StreamIn(userDeviceStreams, k).idle > 0

Stale(k) ==
    /\ k \in Registered(userDeviceStreams)
    /\ Waiters(listeners, k[1], k[2]) = {}
    /\ StreamIn(userDeviceStreams, k).idle > EvictMinutes
    /\ sinceCleanUp >= CleanUpMinutes

C17_SweepRateLimited ==
    [][/\ last'.op \in {"OnNewEvent", "GetListener"} /\ sinceCleanUp < CleanUpMinutes =>
              /\ sinceCleanUp' = sinceCleanUp
              /\ Registered(userDeviceStreams) \subseteq Registered(userDeviceStreams')
       /\ \A k \in Registered(userDeviceStreams) :
              StreamIn(userDeviceStreams, k).idle <= EvictMinutes =>
                  k \in Registered(userDeviceStreams')]_vars

\* C17 witness: OnNewEvent returned without sweeping, less than a minute after
\* the last sweep, and left registered a stream without a waiter that has
\* been idle for more than five minutes.
C17_TooSoonToSweep ==
    /\ last.op = "OnNewEvent"
    /\ sinceCleanUp = 0
    /\ \E k \in Registered(userDeviceStreams) :
           /\ Waiters(listeners, k[1], k[2]) = {}
           /\ StreamIn(userDeviceStreams, k).idle > EvictMinutes

\* the (room, user) pairs of a membership index or of a storage result
Pairs(index) == {<<r, u>> \in Rooms \X Users : u \in JoinedIn(index, r)}

\* C18: when the storage query fails Load returns the error and the index is
\* what it was when Load was called; when it succeeds Load returns nil, every
\* (room, user) pair storage returned is in the index, and so is every pair
\* that was in it when Load was called.
C18_LoadAdditiveAllOrNothing ==
    [][load.pc # "idle" /\ load'.pc = "idle" =>
          IF load.pc = "failed"
          THEN /\ load'.ret = "err"
               /\ roomIDToJoinedUsers' = load.before
          ELSE /\ load'.ret = "nil"
               /\ Pairs(load.result) \subseteq Pairs(roomIDToJoinedUsers')
               /\ Pairs(load.before) \subseteq Pairs(roomIDToJoinedUsers')]_vars

\* C18 witness: Load has returned nil; the index holds a pair it had before
\* that storage did not return, and a pair storage returned that it did not
\* have.
C18_LoadedOntoEarlierIndex ==
    /\ last.op = "Load"
    /\ load.pc = "idle"
    /\ load.ret = "nil"
    /\ Pairs(load.before) \ Pairs(load.result) # {}
    /\ Pairs(load.result) \ Pairs(load.before) # {}
    /\ Pairs(load.before) \cup Pairs(load.result) = Pairs(roomIDToJoinedUsers)

\* the tasks that are reading or writing the membership index
IndexAccessors ==
    (IF streamLock.op = "OnNewEvent" THEN {"OnNewEvent"} ELSE {})
    \cup (IF load.pc = "writing" /\ DOMAIN load.pending # {} THEN {"Load"} ELSE {})

\* C19 as stated: a task that reads or writes the membership index holds
\* streamLock, so no two tasks are at the index at the same time.
C19_IndexAccessUnderLock ==
    /\ IndexAccessors \subseteq {streamLock.op}
    /\ Cardinality(IndexAccessors) <= 1

\* a member event with a target whose membership value ev.Membership() fails
\* to parse
Unparseable(ev) ==
    /\ ev # NilEvent
    /\ ev.type = "m.room.member"
    /\ ev.stateKey # NoStateKey
    /\ ev.membership = BadMembership

\* C20: OnNewEvent for a member event whose membership cannot be parsed leaves
\* the membership index as it was, broadcasts to no stream of a user who is
\* not joined to the event's room (the target is not appended), advances the
\* token, and wakes every listener of the users joined to the room with it.
C20_UnparseableMembershipStillFansOut ==
    [][last'.op = "OnNewEvent" /\ Unparseable(last'.ev) =>
          LET joined == JoinedIn(roomIDToJoinedUsers, last'.ev.roomID) IN
          /\ roomIDToJoinedUsers' = roomIDToJoinedUsers
          /\ currPos' = WithUpdates(currPos, last'.posUpdate)
          /\ Range(last'.woken) =
                 {k \in Registered(userDeviceStreams') : k[1] \in joined}
          /\ \A l \in listeners :
                 IF l.userID \in joined
                 THEN /\ Woken(l, currPos') \in listeners'
                      /\ StreamIn(userDeviceStreams', KeyOf(l)).pos = currPos'
                 ELSE l \in listeners']_vars

\* C20 witness: after such an event the target, who is not joined, has a
\* listener that still blocks, and a joined user's listener is woken with the
\* current token.
C20_TargetBlockedJoinedWoken ==
    /\ last.op = "OnNewEvent"
    /\ Unparseable(last.ev)
    /\ last.ev.stateKey \notin JoinedIn(roomIDToJoinedUsers, last.ev.roomID)
    /\ \E l1, l2 \in listeners :
           /\ l1.userID = last.ev.stateKey
           /\ ~l1.behind
           /\ l2.userID \in JoinedIn(roomIDToJoinedUsers, last.ev.roomID)
           /\ l2.behind /\ l2.owed = currPos /\ currPos # ZeroToken

\* the users an OnNewEvent call recorded in rec fans out to, from the index
\* the call found
Recipients(rec) ==
    Range(UsersToNotify(roomIDToJoinedUsers, rec.ev, rec.roomID, rec.userIDs))

\* C21 as stated: OnNewEvent broadcasts to every stream that was in the
\* registry when the call began and belongs to a recipient, however long the
\* stream has been idle and whether or not the sweep runs.
C21_EveryRecipientStreamWoken ==
    [][last'.op = "OnNewEvent" =>
          \A k \in Registered(userDeviceStreams) :
              k[1] \in Recipients(last') => k \in Range(last'.woken)]_vars

\* C21 amended: the sweep of the call runs before its wake. A recipient's
\* stream that the sweep removes is gone without a broadcast; every other
\* stream of a recipient that was in the registry when the call began is
\* broadcast to with the new current token, and its listeners are woken.
C21_RecipientStreamWokenUnlessSwept ==
    [][last'.op = "OnNewEvent" =>
          \A k \in Registered(userDeviceStreams) :
              k[1] \in Recipients(last') =>
                  IF Stale(k)
                  THEN /\ k \in last'.swept
                       /\ k \notin Range(last'.woken)
                       /\ k \notin Registered(userDeviceStreams')
                  ELSE /\ k \in Range(last'.woken)
                       /\ StreamIn(userDeviceStreams', k).pos = currPos'
                       /\ \A l \in Waiters(listeners, k[1], k[2]) :
                              Woken(l, currPos') \in listeners']_vars

\* C21 witness: a message event of a room found two streams of joined users:
\* the sweep removed one of them, the other was broadcast to.
C21_RecipientStreamSwept ==
    /\ last.op = "OnNewEvent"
    /\ NonMembership(last.ev)
    /\ \E k \in last.swept : k[1] \in JoinedIn(roomIDToJoinedUsers, last.ev.roomID)
    /\ \E k \in Range(last.woken) :
           /\ k[1] \in JoinedIn(roomIDToJoinedUsers, last.ev.roomID)
           /\ StreamIn(userDeviceStreams, k).pos = currPos

\* C22: in an OnNewEvent call for a membership event the index is edited
\* before the first Broadcast: no listener is woken by the part of the call
\* that edits the index, and when wakeupUsers runs the index already holds a
\* joined target, no longer holds a target that left or was banned, and is
\* not touched again.
C22_IndexEditedBeforeWake ==
    [][/\ streamLock.op = "OnNewEvent" /\ streamLock'.op = "wakeupUsers" =>
              \A l \in listeners' : l.behind => l \in listeners
       /\ streamLock.op = "wakeupUsers" /\ streamLock'.op = "" =>
              LET ev == streamLock.call.ev
                  joined == JoinedIn(roomIDToJoinedUsers, ev.roomID)
              IN /\ roomIDToJoinedUsers' = roomIDToJoinedUsers
                 /\ IsMembership(ev) /\ ev.membership = "join" => ev.stateKey \in joined
                 /\ IsMembership(ev) /\ ev.membership \in {"leave", "ban"} =>
                        ev.stateKey \notin joined]_vars

\* C22 witness: a join has woken a listener of its target with the current
\* token, and the target is in the joined set of the room.
C22_JoinerWokenFindsIndexEdited ==
    /\ last.op = "OnNewEvent"
    /\ IsMembership(last.ev)
    /\ last.ev.membership = "join"
    /\ last.ev.stateKey \in JoinedIn(roomIDToJoinedUsers, last.ev.roomID)
    /\ \E l \in listeners :
           /\ l.userID = last.ev.stateKey
           /\ KeyOf(l) \in Range(last.woken)
           /\ l.behind /\ l.owed = currPos /\ currPos # ZeroToken

\* the recipients of an OnNewEvent call recorded in rec, by the priority of
\* its parameters
Chosen(rec) ==
    IF rec.ev # NilEvent
    THEN JoinedIn(roomIDToJoinedUsers, rec.ev.roomID)
         \cup (IF IsMembership(rec.ev) /\ rec.ev.membership \in {"invite", "join"}
               THEN {rec.ev.stateKey} ELSE {})
    ELSE IF rec.roomID # "" THEN JoinedIn(roomIDToJoinedUsers, rec.roomID)
    ELSE Range(rec.userIDs)

\* C23: OnNewEvent fans out to the recipients of one branch only: those of the
\* event's room when an event is given, whatever roomID and userIDs are; else
\* the users joined to roomID, whatever userIDs is; else userIDs. The streams
\* broadcast to are the streams of those users, their listeners are woken and
\* the listeners of every other user are left as they were.
C23_RecipientsByPriority ==
    [][last'.op = "OnNewEvent" =>
          /\ Range(last'.woken) =
                 {k \in Registered(userDeviceStreams) \ last'.swept : k[1] \in Chosen(last')}
          /\ \A l \in listeners :
                 IF l.userID \in Chosen(last')
                 THEN Woken(l, currPos') \in listeners'
                 ELSE l \in listeners']_vars

\* C23 witness: a call gave an event of one room, the other room and a list
\* of users; a listener of a user of the event's room is woken, and a listener
\* of a user who is in the other room and in the list still blocks.
C23_EventOutranksRoomAndUsers ==
    /\ last.op = "OnNewEvent"
    /\ last.ev # NilEvent
    /\ last.roomID \in Rooms \ {last.ev.roomID}
    /\ \E l1, l2 \in listeners :
           /\ l1.userID \in JoinedIn(roomIDToJoinedUsers, last.ev.roomID)
           /\ l1.behind /\ l1.owed = currPos /\ currPos # ZeroToken
           /\ l2.userID \in JoinedIn(roomIDToJoinedUsers, last.roomID)
           /\ l2.userID \in Range(last.userIDs)
           /\ ~l2.behind

\* C24: the tokens the successive waits of one reader return never decrease
\* on any dimension, whether the wait returns on a broadcast or on
\* cancellation, and whether or not the reader's stream was swept and made
\* anew between two of its waits.
C24_ReaderTokensNeverDecrease ==
    [][\A k \in Users \X Devices : TokenLeq(observed[k], observed'[k])]_vars

\* C24 witness: a reader whose earlier wait returned a token takes a listener
\* after its stream was swept: the stream is made anew, with a token that has
\* moved on since.
C24_StreamRemadeForReader ==
    /\ last.op = "GetListener"
    /\ last.made
    /\ LET k == <<last.userID, last.deviceIDs[1]>> IN
           /\ observed[k] # ZeroToken
           /\ observed[k] # last.tok
           /\ TokenLeq(observed[k], last.tok)

\* C25: OnNewSendToDevice, OnNewKeyChange, GetListener and CurrentPosition
\* leave the membership index as it was, and GetListener and CurrentPosition
\* leave the current token as it was.
C25_IndexAndTokenFrame ==
    [][/\ last'.op \in {"OnNewSendToDevice", "OnNewKeyChange", "GetListener", "CurrentPosition"}
              => roomIDToJoinedUsers' = roomIDToJoinedUsers
       /\ last'.op \in {"GetListener", "CurrentPosition"} => currPos' = currPos]_vars

\* C25 witness: a key change has woken a stream of a user who is not joined
\* to the room, of which another user is a member, after the token had moved.
C25_KeyChangeBesideRoomRouting ==
    /\ last.op = "OnNewKeyChange"
    /\ last.woken # <<>>
    /\ currPos # ZeroToken
    /\ JoinedIn(roomIDToJoinedUsers, "r1") # {}
    /\ last.userID \notin JoinedIn(roomIDToJoinedUsers, "r1")

\* C26: every user the registry has an entry for has at least one stream.
C26_NoEmptyUserEntry ==
    \A u \in DOMAIN userDeviceStreams : DOMAIN userDeviceStreams[u] # {}

\* C26 witness: a sweep has removed the last stream of a user, and the user
\* has no entry in the registry.
C26_UserEntrySwept ==
    /\ last.op \in {"OnNewEvent", "GetListener"}
    /\ \E k \in last.swept : k[1] \notin DOMAIN userDeviceStreams

\* the (user, device) pairs an ingress call recorded in rec is addressed to
Addressed(rec) ==
    CASE rec.op = "OnNewEvent" -> {k \in Users \X Devices : k[1] \in Recipients(rec)}
      [] rec.op = "OnNewSendToDevice" -> {rec.userID} \X Range(rec.deviceIDs)
      [] rec.op = "OnNewKeyChange" -> {k \in Users \X Devices : k[1] = rec.userID}
      [] OTHER -> {}

\* an ingress call recorded in rec that is addressed to somebody, none of
\* whose devices has a stream
AddressedToNoStream(rec) ==
    /\ rec.op \in IngressOps
    /\ Addressed(rec) # {}
    /\ Addressed(rec) \cap Registered(userDeviceStreams) = {}

\* C27 as stated: no ingress call adds a stream or a user entry, and an
\* ingress call addressed to users or devices without a stream leaves the
\* registry, the listeners and the time of the last sweep as they were.
C27_AbsentWakeChangesOnlyToken ==
    [][last'.op \in IngressOps =>
          /\ Registered(userDeviceStreams') \subseteq Registered(userDeviceStreams)
          /\ DOMAIN userDeviceStreams' \subseteq DOMAIN userDeviceStreams
          /\ AddressedToNoStream(last') =>
                 /\ userDeviceStreams' = userDeviceStreams
                 /\ listeners' = listeners
                 /\ sinceCleanUp' = sinceCleanUp]_vars

\* C27 amended: no ingress call adds a stream or a user entry, and only a
\* GetListener that makes one does. An ingress call addressed to users or
\* devices without a stream broadcasts to no stream and leaves the listeners
\* and every stream that stays as they were; OnNewSendToDevice and
\* OnNewKeyChange then leave the registry, the index and the time of the last
\* sweep as they were, while OnNewEvent still runs its sweep, which removes
\* the stale streams and resets the time of the last sweep when it is due.
C27_AbsentWakeChangesTokenAndSweep ==
    [][/\ Registered(userDeviceStreams') \ Registered(userDeviceStreams) # {} =>
              last'.op = "GetListener" /\ last'.made
       /\ last'.op \in IngressOps =>
              /\ Registered(userDeviceStreams') \subseteq Registered(userDeviceStreams)
              /\ DOMAIN userDeviceStreams' \subseteq DOMAIN userDeviceStreams
              /\ AddressedToNoStream(last') =>
                     /\ last'.woken = <<>>
                     /\ listeners' = listeners
                     /\ \A k \in Registered(userDeviceStreams') :
                            StreamIn(userDeviceStreams', k) = StreamIn(userDeviceStreams, k)
                     /\ IF last'.op = "OnNewEvent"
                        THEN /\ Registered(userDeviceStreams') =
                                    {k \in Registered(userDeviceStreams) : ~Stale(k)}
                             /\ sinceCleanUp' =
                                    IF sinceCleanUp >= CleanUpMinutes THEN 0 ELSE sinceCleanUp
                        ELSE /\ userDeviceStreams' = userDeviceStreams
                             /\ roomIDToJoinedUsers' = roomIDToJoinedUsers
                             /\ sinceCleanUp' = sinceCleanUp]_vars

\* C27 witness: OnNewEvent was called for a list of users none of whom has a
\* stream: nothing was broadcast to, no stream was made for them, and the
\* sweep of the call removed a stream of somebody else.
C27_AbsentWakeSwept ==
    /\ last.op = "OnNewEvent"
    /\ last.userIDs # <<>>
    /\ last.woken = <<>>
    /\ DevicesOf(last.userIDs) \cap Registered(userDeviceStreams) = {}
    /\ last.swept # {}

=============================================================================
